---- MODULE Spec2Model ----
(***************************************************************************)
(* Model of app22.py: the window-placement script.  One run of the script  *)
(* reads five sidebar inputs, derives the ideal window count, the row      *)
(* centres and two lists of x-positions (compute_x_positions is run once   *)
(* for the desired and once for the ideal count), then draws two panels.   *)
(*                                                                         *)
(* Reals are fixed-point integers: One units make 1.0, so a length l in    *)
(* metres is the integer l * One and an angle a in radians is a * One.     *)
(* Divisions round towards minus infinity at that resolution.              *)
(***************************************************************************)
EXTENDS Integers, Sequences, FiniteSets

\* ------------------------------------------------------------------------
\* Fixed-point representation and bounds
\* ------------------------------------------------------------------------
One == 10000

\* largest window count drawn as an input
MaxWindows == 6
\* number of terms of the power series used for cos and sin
SeriesTerms == 7

Pi == 31416

Abs(a) == IF a < 0 THEN -a ELSE a

\* ------------------------------------------------------------------------
\* np.cos / np.sin on fixed-point radians
\* ------------------------------------------------------------------------
RECURSIVE Series(_, _, _, _)
\* term - term*x2/(d(d+1)) + term*x2^2/(d(d+1)(d+2)(d+3)) - ... , left terms
Series(x2, term, d, left) ==
    IF left = 0 THEN 0
    ELSE term + Series(x2, (0 - ((term * x2) \div One)) \div (d * (d + 1)),
                       d + 2, left - 1)

\* cos and sin on the first quadrant, 0 <= x <= Pi/2
CosQ(x) == Series((x * x) \div One, One, 1, SeriesTerms)
SinQ(x) == Series((x * x) \div One, x, 2, SeriesTerms)

np_cos(x) ==
    LET y == x % (2 * Pi)
        z == IF y > Pi THEN 2 * Pi - y ELSE y
    IN  IF 2 * z > Pi THEN 0 - CosQ(Pi - z) ELSE CosQ(z)

np_sin(x) ==
    LET y == x % (2 * Pi)
        z == IF y > Pi THEN y - Pi ELSE y
        w == IF 2 * z > Pi THEN Pi - z ELSE z
    IN  IF y > Pi THEN 0 - SinQ(w) ELSE SinQ(w)

\* ------------------------------------------------------------------------
\* 1) the mean Fourier series
\* ------------------------------------------------------------------------
f_mean == 27991
f_cos1 == 766
f_sin1 == 1715
f_cos2 == 18216
f_scale == 20094

\* line 16
f(x) == f_mean + (f_cos1 * np_cos(x) - f_sin1 * np_sin(x)
                  + f_cos2 * np_cos(2 * x)) \div One

\* line 20 dividing by the amplitude of the cos(2x) term alone
normalized_f_unscaled(x) == ((f(x) - f_mean) * One) \div f_cos2

\* line 20
normalized_f(x) == ((f(x) - f_mean) * One) \div f_scale

\* ------------------------------------------------------------------------
\* 2) inputs
\* ------------------------------------------------------------------------
MinPanelWidth == 10 * One
MinDesiredWindows == 1

\* values the sidebar admits
PanelWidths == {10 * One, 16 * One, 50 * One}
PanelHeights == {3 * One, 15 * One}
RowSpacings == {1 * One, (32 * One) \div 10}
Offsets == {0, (23 * One) \div 10, 5 * One}

\* values of the functions' documented domains the sidebar does not admit
NarrowPanelWidths == {3 * One}
LowPanelHeights == {(5 * One) \div 10}

\* ------------------------------------------------------------------------
\* 3) ideal number of windows
\* ------------------------------------------------------------------------
fourier_period == 2 * Pi

\* line 38 truncating instead of rounding
round_down(a, b) == a \div b

\* Python's round(a / b) for a >= 0, b > 0: nearest integer, ties to even
round(a, b) ==
    LET q == a \div b
        r == a % b
    IN  IF 2 * r < b THEN q
        ELSE IF 2 * r > b THEN q + 1
        ELSE IF q % 2 = 0 THEN q ELSE q + 1

\* ------------------------------------------------------------------------
\* 4) window and row parameters
\* ------------------------------------------------------------------------
window_width == 2 * One
window_height == (12 * One) \div 10

\* line 48 with the "+ 1" lost
num_rows_floor(height, off, spacing) == (height - off) \div spacing

\* line 48 with one row too many
num_rows_extra(height, off, spacing) == ((height - off) \div spacing) + 2

\* line 48: int(np.floor((panel_height - offset) / row_spacing)) + 1
num_rows_expr(height, off, spacing) == ((height - off) \div spacing) + 1

\* lines 49-50 left out
num_rows_unguarded(n, height, off) == n

\* lines 49-50: if panel_height < offset: num_rows = 1
num_rows_guard(n, height, off) == IF height < off THEN 1 ELSE n

\* line 51 counting the rows from 1
row_center_from_one(off, spacing, i) == off + (i + 1) * spacing

\* line 51: offset + i * row_spacing
row_center(off, spacing, i) == off + i * spacing

\* lines 52-53 with the row put at the panel height
row_fallback_at_height(ys, height, spacing) ==
    IF height < spacing THEN <<height>> ELSE ys

\* lines 52-53: if panel_height < row_spacing: [panel_height / 2.0]
row_fallback(ys, height, spacing) ==
    IF height < spacing THEN <<height \div 2>> ELSE ys

VARIABLES panel_width, panel_height, desired_windows, row_spacing, offset,
          ideal_windows, num_rows, row_y_positions,
          num, j, positions, locals, caller,
          desired_x_positions, ideal_x_positions,
          ax1, ax2, fault, pc

inputs == <<panel_width, panel_height, desired_windows, row_spacing, offset>>
rows == <<num_rows, row_y_positions>>
frame == <<num, j, positions, locals, caller>>
results == <<desired_x_positions, ideal_x_positions>>
axes == <<ax1, ax2>>
vars == <<inputs, ideal_windows, rows, frame, results, axes, fault, pc>>

Start ==
    /\ ideal_windows = 0
    /\ num_rows = 0
    /\ row_y_positions = <<>>
    /\ num = 0
    /\ j = 0
    /\ positions = <<>>
    /\ locals = {}
    /\ caller = "none"
    /\ desired_x_positions = <<>>
    /\ ideal_x_positions = <<>>
    /\ ax1 = {}
    /\ ax2 = {}
    /\ fault = "none"
    /\ pc = "ideal_windows"

\* the script run on inputs the sidebar admits
Init ==
    /\ panel_width \in PanelWidths
    /\ panel_height \in PanelHeights
    /\ desired_windows \in MinDesiredWindows..MaxWindows
    /\ row_spacing \in RowSpacings
    /\ offset \in Offsets
    /\ Start

\* the same code on the whole domain of its functions: a window count of 0,
\* panels narrower or lower than the sidebar's minima
FnInit ==
    /\ panel_width \in PanelWidths \cup NarrowPanelWidths
    /\ panel_height \in PanelHeights \cup LowPanelHeights
    /\ desired_windows \in 0..MaxWindows
    /\ row_spacing \in RowSpacings
    /\ offset \in Offsets
    /\ Start

\* line 38
IdealWindows ==
    /\ pc = "ideal_windows"
    /\ ideal_windows' = round(panel_width, fourier_period)
    /\ pc' = "num_rows"
    /\ UNCHANGED <<inputs, rows, frame, results, axes, fault>>

\* line 48
NumRows ==
    /\ pc = "num_rows"
    /\ num_rows' = num_rows_expr(panel_height, offset, row_spacing)
    /\ pc' = "num_rows_guard"
    /\ UNCHANGED <<inputs, ideal_windows, row_y_positions, frame, results,
                   axes, fault>>

\* lines 49-50
NumRowsGuard ==
    /\ pc = "num_rows_guard"
    /\ num_rows' = num_rows_guard(num_rows, panel_height, offset)
    /\ pc' = "row_y_positions"
    /\ UNCHANGED <<inputs, ideal_windows, row_y_positions, frame, results,
                   axes, fault>>

\* line 51
RowYPositions ==
    /\ pc = "row_y_positions"
    /\ row_y_positions' = [i \in 1..num_rows |->
                              row_center(offset, row_spacing, i - 1)]
    /\ pc' = "row_fallback"
    /\ UNCHANGED <<inputs, ideal_windows, num_rows, frame, results, axes,
                   fault>>

\* lines 52-53
RowFallback ==
    /\ pc = "row_fallback"
    /\ row_y_positions' = row_fallback(row_y_positions, panel_height,
                                     row_spacing)
    /\ pc' = "call_desired"
    /\ UNCHANGED <<inputs, ideal_windows, num_rows, frame, results, axes,
                   fault>>

\* ------------------------------------------------------------------------
\* 5) compute_x_positions
\* ------------------------------------------------------------------------
displacement_factor == 1

base_x(n, k) == ((2 * k + 1) * (panel_width \div n)) \div 2

u(n, k) == ((2 * k + 1) * ((2 * Pi) \div n)) \div 2

mod(n, k) == normalized_f(u(n, k))

x_modulated(n, k) == base_x(n, k) + displacement_factor * mod(n, k)

half_w == window_width \div 2

\* lines 68-72 without the lower test
ClampHighOnly(x) ==
    IF x > panel_width - half_w THEN panel_width - half_w ELSE x

\* lines 68-72
Clamp(x) ==
    IF x < half_w THEN half_w
    ELSE IF x > panel_width - half_w THEN panel_width - half_w
    ELSE x

\* line 76: the call, and lines 59-60; the loop's locals are unbound ({})
CallDesired ==
    /\ pc = "call_desired"
    /\ num' = desired_windows
    /\ j' = 0
    /\ positions' = <<>>
    /\ locals' = {}
    /\ caller' = "desired"
    /\ pc' = "loop"
    /\ UNCHANGED <<inputs, ideal_windows, rows, results, axes, fault>>

\* line 77: the call, and lines 59-60
CallIdeal ==
    /\ pc = "call_ideal"
    /\ num' = ideal_windows
    /\ j' = 0
    /\ positions' = <<>>
    /\ locals' = {}
    /\ caller' = "ideal"
    /\ pc' = "loop"
    /\ UNCHANGED <<inputs, ideal_windows, rows, results, axes, fault>>

\* line 61 as a loop that tests its condition after the first iteration
LoopRunsOnceFirst(k, n) == k < n \/ k = 0

\* line 61 as range(num - 1)
LoopStopsEarly(k, n) == k < n - 1

\* line 61: range(num) yields j while j < num
LoopHasNext(k, n) == k < n

\* lines 61-73: one iteration; panel_width / num raises when num is 0
LoopBody ==
    /\ pc = "loop"
    /\ LoopHasNext(j, num)
    /\ IF num = 0
         THEN /\ fault' = "ZeroDivisionError"
              /\ pc' = "fault"
              /\ UNCHANGED <<j, positions, locals>>
         ELSE /\ locals' = {[base_x |-> base_x(num, j), u |-> u(num, j),
                              mod |-> mod(num, j),
                              x_modulated |-> x_modulated(num, j)]}
              /\ positions' = Append(positions, Clamp(x_modulated(num, j)))
              /\ j' = j + 1
              /\ UNCHANGED <<fault, pc>>
    /\ UNCHANGED <<inputs, ideal_windows, rows, num, caller, results, axes>>

\* line 74, and the assignment of the result at line 76 or 77
Return ==
    /\ pc = "loop"
    /\ ~LoopHasNext(j, num)
    /\ IF caller = "desired"
         THEN /\ desired_x_positions' = positions
              /\ pc' = "call_ideal"
              /\ UNCHANGED ideal_x_positions
         ELSE /\ ideal_x_positions' = positions
              /\ pc' = "draw_desired"
              /\ UNCHANGED desired_x_positions
    /\ UNCHANGED <<inputs, ideal_windows, rows, frame, axes, fault>>

\* ------------------------------------------------------------------------
\* 6) draw_panel
\* ------------------------------------------------------------------------
Range(s) == {s[i] : i \in DOMAIN s}

\* lines 90-95: the lower-left corner of every window rectangle
draw_panel(x_positions) ==
    {<<x_center - window_width \div 2, y_center - window_height \div 2>> :
        x_center \in Range(x_positions), y_center \in Range(row_y_positions)}

\* line 105
DrawDesired ==
    /\ pc = "draw_desired"
    /\ ax1' = draw_panel(desired_x_positions)
    /\ pc' = "draw_ideal"
    /\ UNCHANGED <<inputs, ideal_windows, rows, frame, results, ax2, fault>>

\* line 107
DrawIdeal ==
    /\ pc = "draw_ideal"
    /\ ax2' = draw_panel(ideal_x_positions)
    /\ pc' = "done"
    /\ UNCHANGED <<inputs, ideal_windows, rows, frame, results, ax1, fault>>

Next ==
    \/ IdealWindows
    \/ NumRows
    \/ NumRowsGuard
    \/ RowYPositions
    \/ RowFallback
    \/ CallDesired
    \/ LoopBody
    \/ Return
    \/ CallIdeal
    \/ DrawDesired
    \/ DrawIdeal

Spec == Init /\ [][Next]_vars

FnSpec == FnInit /\ [][Next]_vars

\* ------------------------------------------------------------------------
\* Properties
\* ------------------------------------------------------------------------
\* the row centres are final (line 53 has run)
RowsDone ==
    pc \notin {"ideal_windows", "num_rows", "num_rows_guard",
               "row_y_positions", "row_fallback"}

\* compute_x_positions(desired_windows) has returned (line 76 is complete)
DesiredReturned ==
    pc \in {"call_ideal", "draw_desired", "draw_ideal", "done"}
    \/ (pc = "loop" /\ caller = "ideal")

\* compute_x_positions(ideal_windows) has returned (line 77 is complete)
IdealReturned == pc \in {"draw_desired", "draw_ideal", "done"}

InClampRange(x) == half_w <= x /\ x <= panel_width - half_w

\* C1: with 0 < window_width < panel_width, every value compute_x_positions
\* builds or returns lies in [window_width/2, panel_width - window_width/2],
\* and every window drawn from it has its body inside [0, panel_width].
C1_ClampingInvariant ==
    (0 < window_width /\ window_width < panel_width) =>
        /\ \A i \in DOMAIN positions : InClampRange(positions[i])
        /\ \A i \in DOMAIN desired_x_positions :
               InClampRange(desired_x_positions[i])
        /\ \A i \in DOMAIN ideal_x_positions :
               InClampRange(ideal_x_positions[i])
        /\ \A c \in ax1 \cup ax2 :
               0 <= c[1] /\ c[1] + window_width <= panel_width

\* a run in which the lower clamp and the upper clamp have both replaced a
\* modulated value
C1_Witness ==
    /\ pc = "done"
    /\ desired_windows >= 1
    /\ \E i \in DOMAIN desired_x_positions :
           /\ x_modulated(desired_windows, i - 1) < half_w
           /\ desired_x_positions[i] = half_w
    /\ \E i \in DOMAIN desired_x_positions :
           /\ x_modulated(desired_windows, i - 1) > panel_width - half_w
           /\ desired_x_positions[i] = panel_width - half_w

\* C2: for n >= 1 compute_x_positions(n) returns exactly n values and the
\* value at 0-based position k is the clamped (k + 0.5)*(W/n) plus the
\* displacement normalized_f((k + 0.5)*(2*pi/n)); while the loop runs, the
\* list holds exactly the values of the indices 0..j-1 in that order.
C2_CountAndOrder ==
    LET Expected(n, k) ==
            Clamp((((2 * k + 1) * (panel_width \div n)) \div 2)
                  + normalized_f(((2 * k + 1) * ((2 * Pi) \div n)) \div 2))
        Matches(xs, n) ==
            /\ Len(xs) = n
            /\ \A k \in 0..(n - 1) : xs[k + 1] = Expected(n, k)
    IN  /\ (DesiredReturned /\ desired_windows >= 1) =>
               Matches(desired_x_positions, desired_windows)
        /\ (IdealReturned /\ ideal_windows >= 1) =>
               Matches(ideal_x_positions, ideal_windows)
        /\ (pc = "loop" /\ num >= 1) =>
               /\ j <= num
               /\ Len(positions) = j
               /\ \A k \in 0..(j - 1) : positions[k + 1] = Expected(num, k)

\* both calls have returned lists of several values
C2_Witness ==
    /\ pc = "done"
    /\ desired_windows = 5
    /\ Len(desired_x_positions) = 5
    /\ ideal_windows = 3
    /\ Len(ideal_x_positions) = 3
    /\ \E a, b \in DOMAIN desired_x_positions :
           desired_x_positions[a] # desired_x_positions[b]

\* C3: when height >= offset, height >= spacing, spacing > 0 and
\* offset >= 0, the row centres are exactly offset + i*spacing for
\* i = 0..floor((height - offset)/spacing), ascending, nothing else; height 15,
\* spacing 3.2, offset 2.3 gives [2.3, 5.5, 8.7, 11.9].
C3_RegularRows ==
    (/\ RowsDone
     /\ panel_height >= offset /\ panel_height >= row_spacing
     /\ row_spacing > 0 /\ offset >= 0) =>
        LET top == (panel_height - offset) \div row_spacing
        IN  /\ Len(row_y_positions) = top + 1
            /\ \A i \in 0..top :
                   row_y_positions[i + 1] = offset + i * row_spacing
            /\ \A i \in 1..top : row_y_positions[i] < row_y_positions[i + 1]
            /\ (/\ panel_height = 15 * One
                /\ 10 * row_spacing = 32 * One
                /\ 10 * offset = 23 * One) =>
                   row_y_positions = <<23000, 55000, 87000, 119000>>

\* the rows of the default sidebar values have been computed
C3_Witness ==
    /\ RowsDone
    /\ panel_height = 15 * One
    /\ 10 * row_spacing = 32 * One
    /\ 10 * offset = 23 * One
    /\ Len(row_y_positions) = 4

\* C4 as stated: whenever height < offset the row centres are [height].
C4_Original ==
    (RowsDone /\ panel_height < offset /\ row_spacing > 0) =>
        row_y_positions = <<panel_height>>

\* C4 as amended: whenever height < offset (spacing > 0) there is exactly one
\* row, centred at the offset when height >= spacing and at height/2 when
\* height < spacing.
C4_DegenerateRow ==
    (RowsDone /\ panel_height < offset /\ row_spacing > 0) =>
        row_y_positions = IF panel_height >= row_spacing
                            THEN <<offset>>
                            ELSE <<panel_height \div 2>>

\* rows computed for a panel lower than the offset but not lower than the
\* spacing: the single row sits at the offset, above the panel
C4_Witness ==
    /\ RowsDone
    /\ panel_height < offset
    /\ panel_height >= row_spacing
    /\ row_y_positions = <<offset>>
    /\ offset > panel_height

\* C5: whenever height < spacing there is exactly one row, centred at
\* height/2, whatever the offset is.
C5_FallbackRow ==
    (RowsDone /\ panel_height < row_spacing) =>
        /\ Len(row_y_positions) = 1
        /\ 2 * row_y_positions[1] = panel_height

\* the fallback has replaced a row list that held the offset itself, once for
\* an offset above the panel and once for an offset inside it
C5_Witness ==
    /\ RowsDone
    /\ panel_height < row_spacing
    /\ row_y_positions = <<panel_height \div 2>>
    /\ num_rows = 1
    /\ offset > 0
    /\ offset # panel_height \div 2

\* C6: for height > 0, spacing > 0 and offset >= 0 the row list is never
\* empty, and when also height >= offset every row centre is >= 0.
C6_RowsNonEmpty ==
    (RowsDone /\ panel_height > 0 /\ row_spacing > 0 /\ offset >= 0) =>
        /\ Len(row_y_positions) >= 1
        /\ (panel_height >= offset) =>
               \A i \in DOMAIN row_y_positions : row_y_positions[i] >= 0

\* rows computed where floor((height - offset)/spacing) + 1 is not positive
C6_Witness ==
    /\ RowsDone
    /\ panel_height < offset
    /\ ((panel_height - offset) \div row_spacing) + 1 <= 0
    /\ panel_height >= row_spacing
    /\ Len(row_y_positions) = 1

\* C7 as stated: compute_x_positions(0) ends in a division-by-zero fault and
\* does not return a result.
C7_Original ==
    /\ (desired_windows = 0 /\ caller = "desired") => ~DesiredReturned
    /\ (desired_windows = 0 /\ DesiredReturned) => fault = "ZeroDivisionError"

\* C7 as amended: compute_x_positions(0) returns the empty sequence; the loop
\* body, which holds the division by the count, is not executed for a count
\* of 0, so no division-by-zero fault is raised.
C7_ZeroCountReturnsEmpty ==
    /\ fault = "none"
    /\ pc # "fault"
    /\ (num = 0 /\ caller # "none") => (positions = <<>> /\ locals = {})
    /\ (desired_windows = 0 /\ DesiredReturned) => desired_x_positions = <<>>
    /\ (ideal_windows = 0 /\ IdealReturned) => ideal_x_positions = <<>>

\* a finished run whose two calls both had a count of 0
C7_Witness ==
    /\ pc = "done"
    /\ desired_windows = 0
    /\ ideal_windows = 0
    /\ desired_x_positions = <<>>
    /\ ideal_x_positions = <<>>
    /\ ax1 = {}
    /\ fault = "none"

\* C8: for n >= 1 and every index, the value before clamping differs from the
\* base position by at most 1.0, i.e. |normalized_f(u)| <= 1; for n = 5 and
\* W = 50 the base positions are 5, 15, 25, 35, 45 and the clamp changes no
\* value.
C8_DisplacementBound ==
    \A l \in locals :
        /\ Abs(l.mod) <= One
        /\ Abs(l.x_modulated - l.base_x) <= One
        /\ (num = 5 /\ panel_width = 50 * One) =>
               /\ l.base_x = (10 * (j - 1) + 5) * One
               /\ positions[j] = l.x_modulated

\* the last iteration for n = 5, W = 50, with a displacement of more than
\* 0.8 m seen on the way
C8_Witness ==
    /\ pc = "loop"
    /\ num = 5
    /\ panel_width = 50 * One
    /\ j = 5
    /\ \E l \in locals : l.base_x = 45 * One /\ l.mod # 0
    /\ \E i \in DOMAIN positions :
           Abs(positions[i] - (10 * (i - 1) + 5) * One) > (8 * One) \div 10

\* C9: for every admitted panel width (>= 10) the ideal window count is at
\* least 1 (2 at width 10), so compute_x_positions(ideal_windows) never runs
\* with a count of 0 and returns exactly ideal_windows clamped values.
C9_IdealCountPositive ==
    (panel_width >= MinPanelWidth) =>
        /\ (pc # "ideal_windows") =>
               /\ ideal_windows >= 1
               /\ (panel_width = 10 * One) => ideal_windows = 2
        /\ (caller = "ideal") => (num = ideal_windows /\ num >= 1)
        /\ IdealReturned =>
               /\ Len(ideal_x_positions) = ideal_windows
               /\ \A i \in DOMAIN ideal_x_positions :
                      InClampRange(ideal_x_positions[i])
        /\ fault = "none"

\* the ideal layout of the narrowest admitted panel has been computed
C9_Witness ==
    /\ IdealReturned
    /\ panel_width = MinPanelWidth
    /\ ideal_windows = 2
    /\ Len(ideal_x_positions) = 2

====
